---- MODULE Spec2Model ----
(***************************************************************************)
(* Recommendations service (service/routes.py): the REST handlers over the *)
(* Recommendations store, and the filter builder of the list route.        *)
(*                                                                         *)
(* Python values are modelled as follows.  A dict is a function whose      *)
(* DOMAIN is its set of keys.  An optional value is a sequence: <<>> is    *)
(* None and <<v>> is the value v.  A raw query-string value is a sequence  *)
(* of one-character strings, so that int() has something to parse.         *)
(***************************************************************************)
EXTENDS Integers, Sequences, FiniteSets, TLC

VARIABLES db, next_id, request, resp, sess, hist

vars == <<db, next_id, request, resp, sess, hist>>

(***************************************************************************)
(* Bounds of the exploration.                                              *)
(***************************************************************************)
\* ids the store's sequence hands out: 1..MaxId
MaxId == 2
\* a record receives at most MaxCount likes and dislikes in total
MaxCount == 2

Ids == 1 .. MaxId

(***************************************************************************)
(* HTTP status codes (service.common.status) as the handlers name them.    *)
(***************************************************************************)
HTTP_200_OK == 200
HTTP_201_CREATED == 201
HTTP_204_NO_CONTENT == 204
HTTP_400_BAD_REQUEST == 400
HTTP_404_NOT_FOUND == 404

\* the enumerations of the list route's validation
RECOMMENDATION_TYPES == {"cross-sell", "up-sell", "accessory"}
STATUSES == {"active", "expired", "draft"}

None == <<>>
Some(v) == <<v>>

(***************************************************************************)
(* The store (service.models.Recommendations).  db maps the id of every    *)
(* stored row to its record; next_id is the store's id sequence.           *)
(***************************************************************************)
\* Recommendations.find(id): the row, or None
Find(store, rid) == IF rid \in DOMAIN store THEN Some(store[rid]) ELSE None

\* recommendation.serialize(): the JSON shape of a record
Serialize(rec) ==
    [id |-> rec.id,
     product_id |-> rec.product_id,
     recommended_id |-> rec.recommended_id,
     recommendation_type |-> rec.recommendation_type,
     status |-> rec.status,
     like |-> rec.like,
     dislike |-> rec.dislike]

\* data.get(key, default)
DictGet(data, key, default) == IF key \in DOMAIN data THEN data[key] ELSE default

\* the body fields deserialize() requires
REQUIRED_FIELDS == {"product_id", "recommended_id", "recommendation_type", "status"}

\* deserialize() raises DataValidationError on a missing required field, an
\* out-of-enum type or status, or a negative counter
DataValid(data) ==
    /\ REQUIRED_FIELDS \subseteq DOMAIN data
    /\ data["recommendation_type"] \in RECOMMENDATION_TYPES
    /\ data["status"] \in STATUSES
    /\ DictGet(data, "like", 0) >= 0
    /\ DictGet(data, "dislike", 0) >= 0

\* recommendation.deserialize(data) on the object rec: every mutable field is
\* replaced from the payload (counters default to 0), and a payload that
\* carries an id sets it.  None when DataValidationError is raised.
Deserialize(rec, data) ==
    IF ~DataValid(data) THEN None
    ELSE Some([id |-> DictGet(data, "id", rec.id),
               product_id |-> data["product_id"],
               recommended_id |-> data["recommended_id"],
               recommendation_type |-> data["recommendation_type"],
               status |-> data["status"],
               like |-> DictGet(data, "like", 0),
               dislike |-> DictGet(data, "dislike", 0)])

\* Recommendations(): a fresh object, no id yet (0 stands for the unset id)
NewRecommendation ==
    [id |-> 0, product_id |-> 0, recommended_id |-> 0,
     recommendation_type |-> "", status |-> "", like |-> 0, dislike |-> 0]

\* recommendation.create(): the store assigns the next id of its sequence
Create(store, seq, rec) ==
    LET row == [rec EXCEPT !.id = seq]
    IN  [store |-> [i \in DOMAIN store \cup {seq} |->
                       IF i = seq THEN row ELSE store[i]],
         row |-> row]

\* recommendation.update(): the row loaded under id orig takes the object's columns
Update(store, orig, rec) ==
    [i \in (DOMAIN store \ {orig}) \cup {rec.id} |->
        IF i = rec.id THEN rec ELSE store[i]]

\* recommendation.delete()
Delete(store, rid) == [i \in DOMAIN store \ {rid} |-> store[i]]

(***************************************************************************)
(* Responses.                                                              *)
(***************************************************************************)
\* abort(code, message) and werkzeug's BadRequest: a JSON error body
Abort(code) ==
    [status |-> code, body |-> [error |-> code], filters |-> None, queried |-> FALSE]

Reply(code, body) ==
    [status |-> code, body |-> body, filters |-> None, queried |-> FALSE]

\* what a handler leaves behind: the store and the response
Outcome(store, seq, response) == [db |-> store, next_id |-> seq, resp |-> response]

(***************************************************************************)
(* PATH /recommendations/{id}                                              *)
(***************************************************************************)
\* RecommendationResourceGet without the 404 branch: a missing record is answered 200
GetWithoutAbort(store, seq, rid) ==
    LET recommendation == Find(store, rid)
    IN  IF recommendation = None
        THEN Outcome(store, seq, Reply(HTTP_200_OK, <<>>))
        ELSE Outcome(store, seq, Reply(HTTP_200_OK, Serialize(recommendation[1])))

RecommendationResourceGet(store, seq, rid) ==
    LET recommendation == Find(store, rid)
    IN  IF recommendation = None
        THEN Outcome(store, seq, Abort(HTTP_404_NOT_FOUND))
        ELSE Outcome(store, seq, Reply(HTTP_200_OK, Serialize(recommendation[1])))

\* RecommendationResourcePut that creates the record when it finds none (an upsert)
PutUpsert(store, seq, rid, data) ==
    LET recommendation == Find(store, rid)
        loaded == IF recommendation = None THEN NewRecommendation ELSE recommendation[1]
        des == Deserialize(loaded, data)
    IN  IF des = None
        THEN Outcome(store, seq, Abort(HTTP_400_BAD_REQUEST))
        ELSE LET rec == [des[1] EXCEPT !.id = rid]
             IN  Outcome(Update(store, rid, rec), seq,
                         Reply(HTTP_200_OK, Serialize(rec)))

\* RecommendationResourcePut without `recommendation.id = recommendation_id`
PutKeepsPayloadId(store, seq, rid, data) ==
    LET recommendation == Find(store, rid)
    IN  IF recommendation = None
        THEN Outcome(store, seq, Abort(HTTP_404_NOT_FOUND))
        ELSE LET des == Deserialize(recommendation[1], data)
             IN  IF des = None
                 THEN Outcome(store, seq, Abort(HTTP_400_BAD_REQUEST))
                 ELSE Outcome(Update(store, rid, des[1]), seq,
                              Reply(HTTP_200_OK, Serialize(des[1])))

RecommendationResourcePut(store, seq, rid, data) ==
    LET recommendation == Find(store, rid)
    IN  IF recommendation = None
        THEN Outcome(store, seq, Abort(HTTP_404_NOT_FOUND))
        ELSE LET des == Deserialize(recommendation[1], data)
             IN  IF des = None
                 THEN Outcome(store, seq, Abort(HTTP_400_BAD_REQUEST))
                 ELSE LET rec == [des[1] EXCEPT !.id = rid]
                      IN  Outcome(Update(store, rid, rec), seq,
                                  Reply(HTTP_200_OK, Serialize(rec)))

\* RecommendationResourceDelete that answers 404 for a missing record
DeleteStrict(store, seq, rid) ==
    LET recommendation == Find(store, rid)
    IN  IF recommendation # None
        THEN Outcome(Delete(store, rid), seq, Reply(HTTP_204_NO_CONTENT, <<>>))
        ELSE Outcome(store, seq, Abort(HTTP_404_NOT_FOUND))

RecommendationResourceDelete(store, seq, rid) ==
    LET recommendation == Find(store, rid)
    IN  IF recommendation # None
        THEN Outcome(Delete(store, rid), seq, Reply(HTTP_204_NO_CONTENT, <<>>))
        ELSE Outcome(store, seq, Reply(HTTP_204_NO_CONTENT, <<>>))

(***************************************************************************)
(* PATH /recommendations (POST)                                            *)
(***************************************************************************)
\* RecommendationCollectionPost that calls create() before deserialize()
PostCreatesBeforeDeserialize(store, seq, data) ==
    LET des == Deserialize(NewRecommendation, data)
        made == Create(store, seq, NewRecommendation)
    IN  IF des = None
        THEN Outcome(made.store, seq + 1, Abort(HTTP_400_BAD_REQUEST))
        ELSE Outcome(made.store, seq + 1,
                     Reply(HTTP_201_CREATED, Serialize([des[1] EXCEPT !.id = seq])))

RecommendationCollectionPost(store, seq, data) ==
    LET des == Deserialize(NewRecommendation, data)
    IN  IF des = None
        THEN Outcome(store, seq, Abort(HTTP_400_BAD_REQUEST))
        ELSE LET made == Create(store, seq, des[1])
             IN  Outcome(made.store, seq + 1,
                         Reply(HTTP_201_CREATED, Serialize(made.row)))

(***************************************************************************)
(* PATH /recommendations/{id}/like and /dislike                            *)
(***************************************************************************)
\* LikeResourcePut that also takes the record's dislikes back
LikeClearsDislike(store, seq, rid) ==
    LET recommendation == Find(store, rid)
    IN  IF recommendation = None
        THEN Outcome(store, seq, Abort(HTTP_404_NOT_FOUND))
        ELSE LET rec == [recommendation[1] EXCEPT !.like = @ + 1, !.dislike = 0]
             IN  Outcome(Update(store, rid, rec), seq,
                         Reply(HTTP_200_OK, Serialize(rec)))

\* LikeResourcePut that counts a like twice
LikeCountsTwice(store, seq, rid) ==
    LET recommendation == Find(store, rid)
    IN  IF recommendation = None
        THEN Outcome(store, seq, Abort(HTTP_404_NOT_FOUND))
        ELSE LET rec == [recommendation[1] EXCEPT !.like = @ + 2]
             IN  Outcome(Update(store, rid, rec), seq,
                         Reply(HTTP_200_OK, Serialize(rec)))

\* LikeResourcePut without `recommendation.update()`
LikeWithoutUpdate(store, seq, rid) ==
    LET recommendation == Find(store, rid)
    IN  IF recommendation = None
        THEN Outcome(store, seq, Abort(HTTP_404_NOT_FOUND))
        ELSE LET rec == [recommendation[1] EXCEPT !.like = @ + 1]
             IN  Outcome(store, seq, Reply(HTTP_200_OK, Serialize(rec)))

LikeResourcePut(store, seq, rid) ==
    LET recommendation == Find(store, rid)
    IN  IF recommendation = None
        THEN Outcome(store, seq, Abort(HTTP_404_NOT_FOUND))
        ELSE LET rec == [recommendation[1] EXCEPT !.like = @ + 1]
             IN  Outcome(Update(store, rid, rec), seq,
                         Reply(HTTP_200_OK, Serialize(rec)))

\* DislikeResourcePut that takes a like back instead of counting a dislike
DislikeTakesLikeBack(store, seq, rid) ==
    LET recommendation == Find(store, rid)
    IN  IF recommendation = None
        THEN Outcome(store, seq, Abort(HTTP_404_NOT_FOUND))
        ELSE LET rec == [recommendation[1] EXCEPT !.like = @ - 1]
             IN  Outcome(Update(store, rid, rec), seq,
                         Reply(HTTP_200_OK, Serialize(rec)))

DislikeResourcePut(store, seq, rid) ==
    LET recommendation == Find(store, rid)
    IN  IF recommendation = None
        THEN Outcome(store, seq, Abort(HTTP_404_NOT_FOUND))
        ELSE LET rec == [recommendation[1] EXCEPT !.dislike = @ + 1]
             IN  Outcome(Update(store, rid, rec), seq,
                         Reply(HTTP_200_OK, Serialize(rec)))

(***************************************************************************)
(* Query-string arguments of the list route (recommendation_args).         *)
(***************************************************************************)
INT_ARGS == {"product_id", "recommended_id", "page", "limit"}
STR_ARGS == {"recommendation_type", "status", "sort_by", "order"}
ARG_NAMES == INT_ARGS \cup STR_ARGS

DigitVal ==
    [c \in {"0", "1", "2", "3", "4", "5", "6", "7", "8", "9"} |->
        CASE c = "0" -> 0 [] c = "1" -> 1 [] c = "2" -> 2 [] c = "3" -> 3
          [] c = "4" -> 4 [] c = "5" -> 5 [] c = "6" -> 6 [] c = "7" -> 7
          [] c = "8" -> 8 [] c = "9" -> 9]

RECURSIVE DigitsValue(_)
DigitsValue(s) ==
    IF s = <<>> THEN 0
    ELSE 10 * DigitsValue(SubSeq(s, 1, Len(s) - 1)) + DigitVal[s[Len(s)]]

\* Python's int(text): an optional sign and then decimal digits (the raw
\* values of the model hold no blanks or underscores); None stands for ValueError
PyInt(s) ==
    LET signed == Len(s) > 0 /\ s[1] \in {"-", "+"}
        digits == IF signed THEN Tail(s) ELSE s
    IN  IF digits = <<>> \/ \E i \in 1 .. Len(digits) : digits[i] \notin DOMAIN DigitVal
        THEN None
        ELSE Some(IF signed /\ s[1] = "-" THEN -DigitsValue(digits)
                  ELSE DigitsValue(digits))

\* recommendation_args with `default=1` on the page argument
ArgsWithDefaultPage(query) ==
    LET conv(k) == IF k \notin DOMAIN query THEN (IF k = "page" THEN Some(1) ELSE None)
                   ELSE IF k \in INT_ARGS THEN PyInt(query[k])
                   ELSE Some(query[k])
    IN  [ok |-> \A k \in INT_ARGS \cap DOMAIN query : PyInt(query[k]) # None,
         args |-> [k \in ARG_NAMES |-> conv(k)]]

\* recommendation_args.parse_args(): every declared argument, converted by its
\* type when present in the query string and None when absent; ok is FALSE
\* when a conversion fails (the parser aborts with 400)
recommendation_args(query) ==
    LET conv(k) == IF k \notin DOMAIN query THEN None
                   ELSE IF k \in INT_ARGS THEN PyInt(query[k])
                   ELSE Some(query[k])
    IN  [ok |-> \A k \in INT_ARGS \cap DOMAIN query : PyInt(query[k]) # None,
         args |-> [k \in ARG_NAMES |-> conv(k)]]

\* parse_int_param(param_name): int(request.args.get(param_name));
\* None stands for BadRequest
parse_int_param(query, param_name) ==
    IF param_name \notin DOMAIN query THEN None ELSE PyInt(query[param_name])

\* validate_enum_param that accepts every value
ValidateNothing(param_name, value, valid_options) == Some(value)

\* validate_enum_param(param_name, value, valid_options); None stands for BadRequest
validate_enum_param(param_name, value, valid_options) ==
    IF value \notin valid_options THEN None ELSE Some(value)

\* the guard written as a truth test, `if args.get(key):`
ArgTruthy(args, key) ==
    /\ key \in DOMAIN args
    /\ args[key] # None
    /\ IF key \in INT_ARGS THEN args[key][1] # 0 ELSE args[key][1] # ""

\* the test that guards every entry of filters_from_args
ArgGiven(args, key) == key \in DOMAIN args /\ args[key] # None

\* FilterValue that checks sort_by against the column names and order against asc/desc
FilterValueSortChecked(args, query, key) ==
    IF key \in INT_ARGS THEN parse_int_param(query, key)
    ELSE IF key = "recommendation_type"
         THEN validate_enum_param(key, args[key][1], RECOMMENDATION_TYPES)
    ELSE IF key = "status"
         THEN validate_enum_param(key, args[key][1], STATUSES)
    ELSE IF key = "sort_by"
         THEN validate_enum_param(key, args[key][1],
                                  {"id", "product_id", "recommended_id", "like", "dislike"})
    ELSE validate_enum_param(key, args[key][1], {"asc", "desc"})

\* the value filters_from_args stores under key; None stands for BadRequest
FilterValue(args, query, key) ==
    IF key \in INT_ARGS THEN parse_int_param(query, key)
    ELSE IF key = "recommendation_type"
         THEN validate_enum_param(key, args[key][1], RECOMMENDATION_TYPES)
    ELSE IF key = "status"
         THEN validate_enum_param(key, args[key][1], STATUSES)
    ELSE args[key]

\* the order in which filters_from_args visits the arguments
FILTER_ORDER ==
    <<"product_id", "recommended_id", "page", "limit",
      "recommendation_type", "status", "sort_by", "order">>

\* filters_from_args(args), from the i-th argument on, with filters built so far
RECURSIVE FiltersFrom(_, _, _, _)
FiltersFrom(args, query, i, filters) ==
    IF i > Len(FILTER_ORDER) THEN [ok |-> TRUE, filters |-> filters]
    ELSE LET key == FILTER_ORDER[i]
         IN  IF ~ArgGiven(args, key)
             THEN FiltersFrom(args, query, i + 1, filters)
             ELSE LET v == FilterValue(args, query, key)
                  IN  IF v = None
                      THEN [ok |-> FALSE, filters |-> <<>>]
                      ELSE FiltersFrom(args, query, i + 1, (key :> v[1]) @@ filters)

filters_from_args(args, query) == FiltersFrom(args, query, 1, <<>>)

\* the columns find_by_filters compares
FILTER_COLUMNS == {"product_id", "recommended_id", "recommendation_type", "status"}

Matches(rec, filters) ==
    \A k \in FILTER_COLUMNS \cap DOMAIN filters : Serialize(rec)[k] = filters[k]

\* Recommendations.find_by_filters(filters): the matching rows, in id order
RECURSIVE FindFrom(_, _, _)
FindFrom(store, filters, i) ==
    IF i > MaxId THEN <<>>
    ELSE (IF i \in DOMAIN store /\ Matches(store[i], filters)
          THEN <<store[i]>> ELSE <<>>) \o FindFrom(store, filters, i + 1)

FindByFilters(store, filters) == FindFrom(store, filters, 1)

\* RecommendationCollectionGet that lists every record, whatever the filters
CollectionGetAll(store, seq, query) ==
    LET parsed == recommendation_args(query)
    IN  IF ~parsed.ok
        THEN Outcome(store, seq, Abort(HTTP_400_BAD_REQUEST))
        ELSE LET built == filters_from_args(parsed.args, query)
             IN  IF ~built.ok
                 THEN Outcome(store, seq, Abort(HTTP_400_BAD_REQUEST))
                 ELSE LET recommendations == FindByFilters(store, <<>>)
                      IN  Outcome(store, seq,
                                  [status |-> HTTP_200_OK,
                                   body |-> [i \in 1 .. Len(recommendations) |->
                                                Serialize(recommendations[i])],
                                   filters |-> Some(built.filters),
                                   queried |-> TRUE])

RecommendationCollectionGet(store, seq, query) ==
    LET parsed == recommendation_args(query)
    IN  IF ~parsed.ok
        THEN Outcome(store, seq, Abort(HTTP_400_BAD_REQUEST))
        ELSE LET built == filters_from_args(parsed.args, query)
             IN  IF ~built.ok
                 THEN Outcome(store, seq, Abort(HTTP_400_BAD_REQUEST))
                 ELSE LET recommendations == FindByFilters(store, built.filters)
                      IN  Outcome(store, seq,
                                  [status |-> HTTP_200_OK,
                                   body |-> [i \in 1 .. Len(recommendations) |->
                                                Serialize(recommendations[i])],
                                   filters |-> Some(built.filters),
                                   queried |-> TRUE])

(***************************************************************************)
(* Requests.  request records the request being answered: its operation,   *)
(* the id of its path (0 on the collection routes), the id its JSON body   *)
(* carries (None without one) and its query string.                        *)
(***************************************************************************)
Request(op, rid, pid, query) == [op |-> op, id |-> rid, pid |-> pid, query |-> query]

Idle == [status |-> 0, body |-> <<>>, filters |-> None, queried |-> FALSE]

\* the required fields of the bodies the clients send
BaseBodies ==
    {[product_id |-> 10, recommended_id |-> 20,
      recommendation_type |-> "cross-sell", status |-> "active"],
     [product_id |-> 11, recommended_id |-> 21,
      recommendation_type |-> "up-sell", status |-> "draft"]}

\* the counters a body carries: none, like alone, or both
CounterBodies ==
    {<<>>, [like |-> 1], [like |-> 0, dislike |-> 1], [like |-> 1, dislike |-> 1]}

ValidBodies ==
    {c @@ b : b \in BaseBodies, c \in CounterBodies}
    \cup {[id |-> i, product_id |-> 10, recommended_id |-> 20,
           recommendation_type |-> "cross-sell", status |-> "active"] :
             i \in 1 .. MaxId + 1}

InvalidBodies ==
    {[product_id |-> 10, recommended_id |-> 20, recommendation_type |-> "cross-sell"],
     [product_id |-> 10, recommended_id |-> 20,
      recommendation_type |-> "bogus", status |-> "active"],
     [product_id |-> 10, recommended_id |-> 20,
      recommendation_type |-> "cross-sell", status |-> "Active"],
     [product_id |-> 10, recommended_id |-> 20,
      recommendation_type |-> "cross-sell", status |-> "active", like |-> -1],
     [product_id |-> 10, recommended_id |-> 20,
      recommendation_type |-> "cross-sell", status |-> "active",
      like |-> 0, dislike |-> -1]}

Bodies == ValidBodies \cup InvalidBodies

BodyId(data) == IF "id" \in DOMAIN data THEN Some(data["id"]) ELSE None

\* the query strings of the list requests of Spec
Queries ==
    {<<>>,
     [status |-> "active"],
     [status |-> "draft"],
     [recommendation_type |-> "up-sell"],
     [product_id |-> <<"1", "0">>],
     [recommended_id |-> <<"2", "1">>, status |-> "draft"],
     [product_id |-> <<"a">>]}

\* the feedback a record has received
Feedback(store, rid) ==
    IF rid \in DOMAIN store THEN store[rid].like + store[rid].dislike ELSE 0

Answer(req, out) ==
    /\ request' = req
    /\ db' = out.db
    /\ next_id' = out.next_id
    /\ resp' = out.resp

GetReq ==
    \E i \in Ids :
        Answer(Request("get", i, None, <<>>), RecommendationResourceGet(db, next_id, i))

UpdateReq ==
    \E i \in Ids, data \in Bodies :
        Answer(Request("update", i, BodyId(data), <<>>),
               RecommendationResourcePut(db, next_id, i, data))

DeleteReq ==
    \E i \in Ids :
        Answer(Request("delete", i, None, <<>>),
               RecommendationResourceDelete(db, next_id, i))

CreateReq ==
    \E data \in Bodies :
        /\ next_id <= MaxId
        /\ Answer(Request("create", 0, BodyId(data), <<>>),
                  RecommendationCollectionPost(db, next_id, data))

LikeReq ==
    \E i \in Ids :
        /\ Feedback(db, i) < MaxCount
        /\ Answer(Request("like", i, None, <<>>), LikeResourcePut(db, next_id, i))

DislikeReq ==
    \E i \in Ids :
        /\ Feedback(db, i) < MaxCount
        /\ Answer(Request("dislike", i, None, <<>>), DislikeResourcePut(db, next_id, i))

ListReq ==
    \E q \in Queries :
        Answer(Request("list", 0, None, q), RecommendationCollectionGet(db, next_id, q))

\* the workers of the server, each answering one request at a time
Workers == {"w1", "w2"}

\* a worker that holds no request
NoSession ==
    [pc |-> "idle", op |-> "none", id |-> 0, data |-> <<>>, loaded |-> None,
     status |-> 0, body |-> <<>>]

Init ==
    /\ db = <<>>
    /\ next_id = 1
    /\ request = Request("none", 0, None, <<>>)
    /\ resp = Idle
    /\ sess = [w \in Workers |-> NoSession]
    /\ hist = <<>>

\* no worker session and no tally takes part
Quiet == UNCHANGED <<sess, hist>>

\* one request at a time, each answered before the next arrives
Next ==
    \/ GetReq /\ Quiet
    \/ UpdateReq /\ Quiet
    \/ DeleteReq /\ Quiet
    \/ CreateReq /\ Quiet
    \/ LikeReq /\ Quiet
    \/ DislikeReq /\ Quiet
    \/ ListReq /\ Quiet

Spec == Init /\ [][Next]_vars

(***************************************************************************)
(* Requests on records that are neither updated nor deleted, with a tally  *)
(* of the answers.  hist maps every created id to the counters its record  *)
(* was created with and to the number of like and of dislike requests on   *)
(* it that were answered 200.                                              *)
(***************************************************************************)
\* an update request whose body deserialize() refuses
FailedUpdateReq ==
    \E i \in Ids, data \in InvalidBodies :
        Answer(Request("update", i, BodyId(data), <<>>),
               RecommendationResourcePut(db, next_id, i, data))

\* the tally after the request req has been answered with response
Tally(h, req, response) ==
    IF req.op = "create" /\ response.status = HTTP_201_CREATED
    THEN (response.body.id :> [like0 |-> response.body.like,
                               dislike0 |-> response.body.dislike,
                               likes |-> 0, dislikes |-> 0]) @@ h
    ELSE IF req.id \in DOMAIN h /\ response.status = HTTP_200_OK /\ req.op = "like"
    THEN [h EXCEPT ![req.id].likes = @ + 1]
    ELSE IF req.id \in DOMAIN h /\ response.status = HTTP_200_OK /\ req.op = "dislike"
    THEN [h EXCEPT ![req.id].dislikes = @ + 1]
    ELSE h

\* the bodies of the create requests that are tallied
CountedBodies ==
    {[product_id |-> 10, recommended_id |-> 20,
      recommendation_type |-> "cross-sell", status |-> "active"],
     [product_id |-> 11, recommended_id |-> 21,
      recommendation_type |-> "up-sell", status |-> "draft", like |-> 1],
     [product_id |-> 10, recommended_id |-> 20,
      recommendation_type |-> "cross-sell", status |-> "active", like |-> -1]}

CountedCreateReq ==
    \E data \in CountedBodies :
        /\ next_id <= MaxId
        /\ Answer(Request("create", 0, BodyId(data), <<>>),
                  RecommendationCollectionPost(db, next_id, data))

\* the answer just given enters the tally
Counted == hist' = Tally(hist, request', resp') /\ UNCHANGED sess

NextCount ==
    \/ GetReq /\ Counted
    \/ ListReq /\ Counted
    \/ CountedCreateReq /\ Counted
    \/ LikeReq /\ Counted
    \/ DislikeReq /\ Counted
    \/ FailedUpdateReq /\ Counted

SpecCount == Init /\ [][NextCount]_vars

(***************************************************************************)
(* Overlapping requests.  Each worker answers one like, dislike or update  *)
(* request in two steps, as the handlers do: it loads the record with      *)
(* find(), and later changes its own copy and saves it with update().  No  *)
(* lock is held between the two steps.  sess holds, per worker, the        *)
(* request, the copy it loaded and its answer.                             *)
(***************************************************************************)
\* LikeStored as an increment done by the store on the row as it is now
LikeStoredAtomic(store, seq, rid, loaded) ==
    LET rec == [store[rid] EXCEPT !.like = @ + 1]
    IN  Outcome(Update(store, rid, rec), seq, Reply(HTTP_200_OK, Serialize(rec)))

\* LikeResource.put from `recommendation.like += 1` on, with the copy it loaded
LikeStored(store, seq, rid, loaded) ==
    LET rec == [loaded EXCEPT !.like = @ + 1]
    IN  Outcome(Update(store, rid, rec), seq, Reply(HTTP_200_OK, Serialize(rec)))

\* DislikeResource.put from `recommendation.dislike += 1` on
DislikeStored(store, seq, rid, loaded) ==
    LET rec == [loaded EXCEPT !.dislike = @ + 1]
    IN  Outcome(Update(store, rid, rec), seq, Reply(HTTP_200_OK, Serialize(rec)))

\* RecommendationResource.put from `data = api.payload` on
PutStored(store, seq, rid, loaded, data) ==
    LET des == Deserialize(loaded, data)
    IN  IF des = None
        THEN Outcome(store, seq, Abort(HTTP_400_BAD_REQUEST))
        ELSE LET rec == [des[1] EXCEPT !.id = rid]
             IN  Outcome(Update(store, rid, rec), seq,
                         Reply(HTTP_200_OK, Serialize(rec)))

\* worker w takes a request and runs it up to the 404 check
Load(w) ==
    /\ sess[w].pc = "idle"
    /\ \E op \in {"like", "dislike", "update"}, i \in Ids :
       \E data \in IF op = "update" THEN CountedBodies ELSE {<<>>} :
          LET recommendation == Find(db, i)
              mine == [NoSession EXCEPT !.op = op, !.id = i, !.data = data]
          IN  sess' = [sess EXCEPT ![w] =
                         IF recommendation = None
                         THEN [mine EXCEPT !.pc = "done",
                                           !.status = HTTP_404_NOT_FOUND,
                                           !.body = Abort(HTTP_404_NOT_FOUND).body]
                         ELSE [mine EXCEPT !.pc = "loaded",
                                           !.loaded = recommendation]]
    /\ UNCHANGED <<db, next_id, request, resp, hist>>

\* worker w changes its copy, saves it and answers
Save(w) ==
    /\ sess[w].pc = "loaded"
    /\ LET mine == sess[w]
           out == IF mine.op = "like"
                  THEN LikeStored(db, next_id, mine.id, mine.loaded[1])
                  ELSE IF mine.op = "dislike"
                  THEN DislikeStored(db, next_id, mine.id, mine.loaded[1])
                  ELSE PutStored(db, next_id, mine.id, mine.loaded[1], mine.data)
       IN  /\ db' = out.db
           /\ sess' = [sess EXCEPT ![w] = [mine EXCEPT !.pc = "done",
                                                       !.status = out.resp.status,
                                                       !.body = out.resp.body]]
    /\ UNCHANGED <<next_id, request, resp, hist>>

\* the store holds one record, just created
InitConc ==
    /\ \E data \in ValidBodies :
          LET out == RecommendationCollectionPost(<<>>, 1, data)
          IN  /\ db = out.db
              /\ next_id = out.next_id
              /\ request = Request("create", 0, BodyId(data), <<>>)
              /\ resp = out.resp
    /\ sess = [w \in Workers |-> NoSession]
    /\ hist = <<>>

NextConc ==
    \/ \E w \in Workers : Load(w)
    \/ \E w \in Workers : Save(w)

SpecConc == InitConc /\ [][NextConc]_vars

(***************************************************************************)
(* The list route alone, over every combination of query-string arguments. *)
(***************************************************************************)
RawInts == {<<"0">>, <<"1", "2">>, <<"-", "1">>, <<"a">>}
RawTypes == RECOMMENDATION_TYPES \cup {"active"}
RawStatuses == STATUSES \cup {"up-sell"}
RawSorts == {"like", "bogus", ""}
RawOrders == {"desc", "sideways"}

Opt(S) == {None} \cup {Some(v) : v \in S}

QueryChoices ==
    [product_id : Opt(RawInts), recommended_id : Opt(RawInts),
     page : Opt(RawInts), limit : Opt(RawInts),
     recommendation_type : Opt(RawTypes), status : Opt(RawStatuses),
     sort_by : Opt(RawSorts), order : Opt(RawOrders)]

\* the query string that holds the chosen arguments
QueryOf(c) == [k \in {n \in ARG_NAMES : c[n] # None} |-> c[k][1]]

InitList ==
    /\ db = <<>>
    /\ next_id = 1
    /\ \E c \in QueryChoices : request = Request("list", 0, None, QueryOf(c))
    /\ resp = Idle
    /\ sess = [w \in Workers |-> NoSession]
    /\ hist = <<>>

ListServe ==
    /\ resp = Idle
    /\ request.op = "list"
    /\ Answer(request, RecommendationCollectionGet(db, next_id, request.query))

NextList == ListServe /\ Quiet

SpecList == InitList /\ [][NextList]_vars

(***************************************************************************)
(* Properties of the item routes.                                          *)
(***************************************************************************)
\* every record but the one under rid is the same in both stores
OthersUnchanged(before, after, rid) ==
    /\ DOMAIN after \ {rid} = DOMAIN before \ {rid}
    /\ \A j \in DOMAIN before \ {rid} : after[j] = before[j]

\* C1: a like request on an existing record with like = n ends with status 200
\* and leaves the stored record with like = n + 1; a dislike request ends with
\* status 200 and leaves it with dislike = m + 1; the returned record carries
\* the incremented value.
C1_IncrementByOne ==
    [][\A i \in DOMAIN db :
          /\ (request'.op = "like" /\ request'.id = i) =>
                /\ resp'.status = 200
                /\ i \in DOMAIN db'
                /\ db'[i].like = db[i].like + 1
                /\ resp'.body.like = db[i].like + 1
          /\ (request'.op = "dislike" /\ request'.id = i) =>
                /\ resp'.status = 200
                /\ i \in DOMAIN db'
                /\ db'[i].dislike = db[i].dislike + 1
                /\ resp'.body.dislike = db[i].dislike + 1]_vars

\* a like on a record whose like counter was 1 has been answered
C1_Witness ==
    /\ request.op = "like"
    /\ resp.status = 200
    /\ request.id \in DOMAIN db
    /\ db[request.id].like = 2
    /\ resp.body.like = 2

\* C2: an update, like or dislike request on an id the store holds no record
\* for fails with 404 and leaves the whole store unchanged.
C2_MissingIsNotFound ==
    [][(request'.op \in {"update", "like", "dislike"} /\ request'.id \notin DOMAIN db) =>
          /\ resp'.status = 404
          /\ db' = db
          /\ next_id' = next_id]_vars

\* an update of an id that holds no record has been refused, with records stored
C2_Witness ==
    /\ request.op = "update"
    /\ request.id \notin DOMAIN db
    /\ resp.status = 404
    /\ DOMAIN db # {}

\* C3: a delete request always ends with status 204; it removes exactly the
\* record of its id when there is one and changes nothing when there is none,
\* so a second delete of the same id changes nothing.
C3_DeleteIdempotent ==
    [][request'.op = "delete" =>
          /\ resp'.status = 204
          /\ DOMAIN db' = DOMAIN db \ {request'.id}
          /\ OthersUnchanged(db, db', request'.id)
          /\ (request'.id \notin DOMAIN db => db' = db)
          /\ ((request.op = "delete" /\ request.id = request'.id) => db' = db)]_vars

\* a delete has removed a record that was created, and another record remains
C3_Witness ==
    /\ request.op = "delete"
    /\ resp.status = 204
    /\ request.id < next_id
    /\ request.id \notin DOMAIN db
    /\ DOMAIN db # {}

\* C4: after a successful update at path id p, whatever id the payload
\* carries, the record stored under p is still stored under id p, and no
\* record under another id has been created, replaced or removed.
C4_UpdateKeepsIdentity ==
    [][(request'.op = "update" /\ resp'.status = 200) =>
          /\ request'.id \in DOMAIN db
          /\ request'.id \in DOMAIN db'
          /\ db'[request'.id].id = request'.id
          /\ resp'.body.id = request'.id
          /\ OthersUnchanged(db, db', request'.id)]_vars

\* an update whose payload carries another id has succeeded
C4_Witness ==
    /\ request.op = "update"
    /\ resp.status = 200
    /\ request.pid # None
    /\ request.pid[1] # request.id
    /\ Cardinality(DOMAIN db) = 2

\* the six payload fields of two JSON records agree
SameFields(a, b) ==
    /\ a.product_id = b.product_id
    /\ a.recommended_id = b.recommended_id
    /\ a.recommendation_type = b.recommendation_type
    /\ a.status = b.status
    /\ a.like = b.like
    /\ a.dislike = b.dislike

\* C5: once a create request has been answered 201, a get request on the id
\* the store assigned is answered 200 with a record whose product_id,
\* recommended_id, recommendation_type, status, like and dislike equal those
\* of the record the create request returned.
C5_CreateThenGet ==
    (request.op = "create" /\ resp.status = 201) =>
        LET got == RecommendationResourceGet(db, next_id, resp.body.id).resp
        IN  /\ got.status = 200
            /\ SameFields(got.body, resp.body)

\* a create whose payload carries both counters has been answered
C5_Witness ==
    /\ request.op = "create"
    /\ resp.status = 201
    /\ resp.body.like = 1
    /\ resp.body.dislike = 1
    /\ resp.body.recommendation_type = "up-sell"

\* C6: a get request on id i is answered 200 with the stored record exactly
\* when the store holds a record with id i, and 404 otherwise; it never
\* changes the store.
C6_GetFoundOrNotFound ==
    [][request'.op = "get" =>
          /\ db' = db
          /\ next_id' = next_id
          /\ IF request'.id \in DOMAIN db
             THEN /\ resp'.status = 200
                  /\ resp'.body.id = request'.id
                  /\ SameFields(resp'.body, db[request'.id])
             ELSE resp'.status = 404]_vars

\* a get of an id that was created and deleted has been answered 404
C6_Witness ==
    /\ request.op = "get"
    /\ request.id < next_id
    /\ request.id \notin DOMAIN db
    /\ resp.status = 404

IntegerOf ==
    (<<"0">> :> 0) @@ (<<"1", "2">> :> 12) @@ (<<"-", "1">> :> -1)
    @@ (<<"1", "0">> :> 10) @@ (<<"2", "1">> :> 21)

Present(key) == key \in DOMAIN request.query

\* the present enum argument key has a value outside allowed
BadEnum(key, allowed) == Present(key) /\ request.query[key] \notin allowed

\* the present integer argument key does not parse as an integer
BadInt(key) == Present(key) /\ request.query[key] \notin DOMAIN IntegerOf

Answered == request.op = "list" /\ resp # Idle

\* C7: a list request whose recommendation_type is present with a value outside
\* {cross-sell, up-sell, accessory}, or whose status is present with a value
\* outside {active, expired, draft}, fails with 400 whatever the other
\* parameters are, and produces no filter and no store query.
C7_BadEnumIsRejected ==
    (/\ Answered
     /\ \/ BadEnum("recommendation_type", {"cross-sell", "up-sell", "accessory"})
        \/ BadEnum("status", {"active", "expired", "draft"})) =>
        /\ resp.status = 400
        /\ resp.filters = None
        /\ ~resp.queried

\* a request with a bad status and otherwise valid arguments has been refused
C7_Witness ==
    /\ Answered
    /\ BadEnum("status", {"active", "expired", "draft"})
    /\ Present("recommendation_type")
    /\ ~BadEnum("recommendation_type", {"cross-sell", "up-sell", "accessory"})
    /\ \A k \in {"product_id", "recommended_id", "page", "limit"} : Present(k) /\ ~BadInt(k)
    /\ resp.status = 400

\* C8: a list request in which product_id, recommended_id, page or limit is
\* present with a value that is no integer fails with 400; a request that is
\* answered holds, for each of them present, its integer under the same key.
C8_IntegerArguments ==
    Answered =>
        \A k \in {"product_id", "recommended_id", "page", "limit"} :
            /\ BadInt(k) => resp.status = 400 /\ resp.filters = None
            /\ (Present(k) /\ resp.status = 200) =>
                  /\ resp.filters # None
                  /\ k \in DOMAIN resp.filters[1]
                  /\ resp.filters[1][k] = IntegerOf[request.query[k]]

\* a request with product_id=0, limit=-1 and page=12 has been answered
C8_Witness ==
    /\ Answered
    /\ resp.status = 200
    /\ Present("product_id") /\ resp.filters[1]["product_id"] = 0
    /\ Present("limit") /\ resp.filters[1]["limit"] = -1
    /\ Present("page") /\ resp.filters[1]["page"] = 12

\* every present argument of the request is valid
AllValid ==
    /\ \A k \in {"product_id", "recommended_id", "page", "limit"} : ~BadInt(k)
    /\ ~BadEnum("recommendation_type", {"cross-sell", "up-sell", "accessory"})
    /\ ~BadEnum("status", {"active", "expired", "draft"})

\* C9: for a list request whose present parameters are all valid, the keys of
\* the filter are exactly the parameters present in the request; a request
\* with no parameters yields the empty filter.
C9_FilterKeysArePresentArgs ==
    (Answered /\ AllValid) =>
        /\ resp.status = 200
        /\ resp.filters # None
        /\ DOMAIN resp.filters[1] = DOMAIN request.query
        /\ (DOMAIN request.query = {} => resp.filters[1] = <<>>)

\* a valid request with some arguments present and some absent has been answered
C9_Witness ==
    /\ Answered
    /\ AllValid
    /\ resp.status = 200
    /\ DOMAIN resp.filters[1] = {"recommended_id", "status", "order"}

(***************************************************************************)
(* Properties of the list route over the store.                            *)
(***************************************************************************)
\* the value the request asks for in column key
Wanted(key) ==
    IF key \in {"product_id", "recommended_id"}
    THEN IntegerOf[request.query[key]]
    ELSE request.query[key]

\* the stored record i has, in every column the request filters on, the value asked for
StoredMatches(i) ==
    \A k \in {"product_id", "recommended_id", "recommendation_type", "status"}
             \cap DOMAIN request.query :
        db[i][k] = Wanted(k)

\* C11: a list request with a valid status, recommendation_type, product_id or
\* recommended_id filter is answered 200 with only records whose filtered
\* fields equal the filter values, and with every stored record that matches.
C11_ListReturnsExactlyMatches ==
    (request.op = "list" /\ AllValid) =>
        /\ resp.status = 200
        /\ \A n \in DOMAIN resp.body :
              /\ resp.body[n].id \in DOMAIN db
              /\ StoredMatches(resp.body[n].id)
              /\ SameFields(resp.body[n], db[resp.body[n].id])
        /\ \A i \in DOMAIN db :
              StoredMatches(i) => \E n \in DOMAIN resp.body : resp.body[n].id = i

\* a list with status=active has returned one of two stored records
C11_Witness ==
    /\ request.op = "list"
    /\ request.query = [status |-> "active"]
    /\ resp.status = 200
    /\ Cardinality(DOMAIN db) = 2
    /\ Len(resp.body) = 1
    /\ resp.body[1].status = "active"

\* C13: a like request changes only the like counter of the addressed record
\* and a dislike request only its dislike counter: its other fields and every
\* other record are unchanged.
C13_LikeDislikeFrame ==
    [][(request'.op \in {"like", "dislike"} /\ resp'.status = 200) =>
          LET i == request'.id
          IN  /\ i \in DOMAIN db
              /\ i \in DOMAIN db'
              /\ OthersUnchanged(db, db', i)
              /\ next_id' = next_id
              /\ db'[i].id = db[i].id
              /\ db'[i].product_id = db[i].product_id
              /\ db'[i].recommended_id = db[i].recommended_id
              /\ db'[i].recommendation_type = db[i].recommendation_type
              /\ db'[i].status = db[i].status
              /\ (request'.op = "like" => db'[i].dislike = db[i].dislike)
              /\ (request'.op = "dislike" => db'[i].like = db[i].like)]_vars

\* a like has been counted on a record that holds a dislike, beside another record
C13_Witness ==
    /\ request.op = "like"
    /\ resp.status = 200
    /\ db[request.id].dislike = 1
    /\ db[request.id].like = 1
    /\ Cardinality(DOMAIN db) = 2

\* C14: sort_by and order are passed through unvalidated: when present, the
\* filter holds exactly the given value under the same key, and no value of
\* sort_by or order makes the filter builder fail.
C14_SortAndOrderPassThrough ==
    Answered =>
        /\ AllValid => resp.filters # None
        /\ \A k \in {"sort_by", "order"} :
              (Present(k) /\ resp.filters # None) =>
                  /\ k \in DOMAIN resp.filters[1]
                  /\ resp.filters[1][k] = request.query[k]

\* a request with an unknown sort column and an unknown order has been answered
C14_Witness ==
    /\ Answered
    /\ Present("sort_by") /\ request.query["sort_by"] = "bogus"
    /\ Present("order") /\ request.query["order"] = "sideways"
    /\ resp.status = 200
    /\ resp.filters[1]["sort_by"] = "bogus"
    /\ resp.filters[1]["order"] = "sideways"

(***************************************************************************)
(* Properties of the tally.                                                *)
(***************************************************************************)
\* C15: when requests do not overlap, after any sequence of like, dislike,
\* get, list and failed requests on a record that is neither updated nor
\* deleted, its like counter equals its starting value plus the number of
\* like requests on its id answered 200, and likewise its dislike counter.
C15_NoIncrementLostOrDuplicated ==
    \A i \in DOMAIN db :
        /\ i \in DOMAIN hist
        /\ db[i].like = hist[i].like0 + hist[i].likes
        /\ db[i].dislike = hist[i].dislike0 + hist[i].dislikes

\* a record has been liked and disliked, and the last request on it failed
C15_Witness ==
    /\ request.id \in DOMAIN hist
    /\ hist[request.id].likes = 1
    /\ hist[request.id].dislikes = 1
    /\ request.op = "update"
    /\ resp.status = 400

(***************************************************************************)
(* Properties of overlapping requests.                                     *)
(***************************************************************************)
\* both workers have answered 200 to requests on the same id, with operations a and b
BothAnswered(a, b) ==
    /\ sess["w1"].pc = "done" /\ sess["w1"].status = 200 /\ sess["w1"].op = a
    /\ sess["w2"].pc = "done" /\ sess["w2"].status = 200 /\ sess["w2"].op = b
    /\ sess["w1"].id = sess["w2"].id

Smaller(x, y) == IF x <= y THEN x ELSE y

\* C12: like, dislike and update are read-modify-write without a lock.  After
\* two like requests on the same id, both answered 200, the like counter has
\* grown by 1 when both loaded the same value and by 2 otherwise; likewise
\* for two dislike requests; after a like and an update, the like counter is
\* the payload's or the value the like loaded plus 1.
C12_OverlapLosesAnUpdate ==
    LET i == sess["w1"].id
        l1 == sess["w1"].loaded[1]
        l2 == sess["w2"].loaded[1]
    IN  /\ BothAnswered("like", "like") =>
              db[i].like - Smaller(l1.like, l2.like)
                  = IF l1.like = l2.like THEN 1 ELSE 2
        /\ BothAnswered("dislike", "dislike") =>
              db[i].dislike - Smaller(l1.dislike, l2.dislike)
                  = IF l1.dislike = l2.dislike THEN 1 ELSE 2
        /\ BothAnswered("like", "update") =>
              db[i].like \in {l1.like + 1, DictGet(sess["w2"].data, "like", 0)}

\* two like requests that both loaded like = 1 were both answered 200 with
\* like = 2, and the stored counter is 2
C12_Witness ==
    /\ BothAnswered("like", "like")
    /\ sess["w1"].loaded[1].like = 1
    /\ sess["w2"].loaded[1].like = 1
    /\ sess["w1"].body.like = 2
    /\ sess["w2"].body.like = 2
    /\ db[sess["w1"].id].like = 2

====
